---- MODULE Spec2Model ----
(***************************************************************************)
(* Model of backend/main.py of AI-Resume-Manager: the resume store          *)
(* (db.resumes), the job store (db.jobs), the analysis store (db.analyses)  *)
(* and the request handlers upload_resumes, get_all_resumes, delete_resume, *)
(* get_resume_file, analyze_job and get_analysis_history.                   *)
(*                                                                          *)
(* A handler is cut into one action per store operation it awaits: what a   *)
(* handler computes between two awaits runs without interleaving on the     *)
(* event loop and belongs to the action of the store operation before it.   *)
(* The handlers share one event loop thread: loop names the request whose    *)
(* synchronous scoring occupies it, and no handler runs until it is free.    *)
(* Similarity scores are kept in hundredths (100 stands for 1.0).           *)
(***************************************************************************)
EXTENDS Integers, Sequences, FiniteSets, TLC

VARIABLES resumes, jobs, analyses, everOwner, jobIds, req, resp, loop, encodeRaises

vars == <<resumes, jobs, analyses, everOwner, jobIds, req, resp, loop, encodeRaises>>

----------------------------------------------------------------------------
(* Bounds *)

MaxUploads == 3
MaxAnalyses == 1
MaxBatch == 2
MaxFilterLen == 2
MaxInFlight == 1
MaxHistory == 2

----------------------------------------------------------------------------
(* Program constants *)

MAX_FILE_SIZE == 10485760

PDF == "application/pdf"
DOCX == "application/vnd.openxmlformats-officedocument.wordprocessingml.document"
allowed_content_types == {PDF, DOCX}

ErrorMarker == "Error extracting"

Principals == {"hr@x", "stu@x"}

----------------------------------------------------------------------------
(* Sequence helpers *)

Range(s) == {s[i] : i \in DOMAIN s}

Reverse(s) == [i \in 1..Len(s) |-> s[Len(s) + 1 - i]]

SeqsUpTo(S, n) == UNION {[1..k -> S] : k \in 0..n}

RECURSIVE SelectSeqBy(_, _)
\* the subsequence of s whose elements are in the set keep
SelectSeqBy(s, keep) ==
    IF s = <<>> THEN <<>>
    ELSE IF Head(s) \in keep THEN <<Head(s)>> \o SelectSeqBy(Tail(s), keep)
         ELSE SelectSeqBy(Tail(s), keep)

----------------------------------------------------------------------------
(* Uploaded files.  A file is its declared media type, the length of its   *)
(* bytes, whether the bytes are a damaged document, and the text a reader   *)
(* recovers from them when they are not.  A text is a sequence of phrases.  *)

UploadFile(name, ctype, size, corrupt, body) ==
    [filename |-> name, content_type |-> ctype, size |-> size,
     corrupt |-> corrupt, body |-> body]

Files ==
    { UploadFile("pic.png", "image/png", 5, FALSE, <<>>),
      UploadFile("empty.pdf", PDF, 0, FALSE, <<>>),
      UploadFile("big.pdf", PDF, MAX_FILE_SIZE + 1, FALSE, <<"go">>),
      UploadFile("max.pdf", PDF, MAX_FILE_SIZE, FALSE, <<"go">>),
      UploadFile("bad.pdf", PDF, 5, TRUE, <<>>),
      UploadFile("scan.pdf", PDF, 5, FALSE, <<>>),
      UploadFile("cv.docx", DOCX, 5, FALSE, <<"design">>),
      UploadFile("log.pdf", PDF, 5, FALSE, <<ErrorMarker, "logs">>) }

Batches == UNION {[1..k -> Files] : k \in 1..MaxBatch}

\* extract_text_from_pdf: the pages' text, or the error string when the
\* reader raises
extract_text_from_pdf(file) ==
    IF file.corrupt THEN <<ErrorMarker, "PDF text", "cause">> ELSE file.body

\* extract_text_from_docx: the paragraphs' text, or the error string
extract_text_from_docx(file) ==
    IF file.corrupt THEN <<ErrorMarker, "DOCX text", "cause">> ELSE file.body

\* the test `"Error extracting" in text` of upload_resumes
ExtractionReportedError(text) == \E i \in DOMAIN text : text[i] = ErrorMarker

ExtractText(file) ==
    IF file.content_type = PDF THEN extract_text_from_pdf(file)
    ELSE extract_text_from_docx(file)

\* the conditions without the test of the media type
StoredWhateverType(file) ==
    /\ file.size # 0
    /\ ~(file.size > MAX_FILE_SIZE)
    /\ ~ExtractionReportedError(ExtractText(file))

\* the conditions under which the loop body of upload_resumes reaches
\* insert_one for a file
Stored(file) ==
    /\ file.content_type \in allowed_content_types
    /\ file.size # 0
    /\ ~(file.size > MAX_FILE_SIZE)
    /\ ~ExtractionReportedError(ExtractText(file))

----------------------------------------------------------------------------
(* Text previews.  The characters of a text are those of its phrases, one    *)
(* after the other.                                                          *)

RECURSIVE Str(_)
Str(text) == IF text = <<>> THEN "" ELSE Head(text) \o Str(Tail(text))

RECURSIVE Chars(_, _)
\* n times the character c
Chars(c, n) ==
    IF n = 0 THEN ""
    ELSE IF n % 2 = 1 THEN c \o Chars(c, n - 1)
    ELSE LET half == Chars(c, n \div 2) IN half \o half

Whitespace == {" ", "\n", "\t"}

\* s[:n]
Prefix(s, n) == IF Len(s) <= n THEN s ELSE SubSeq(s, 1, n)

RECURSIVE LStrip(_)
LStrip(s) ==
    IF s # "" /\ SubSeq(s, 1, 1) \in Whitespace THEN LStrip(SubSeq(s, 2, Len(s))) ELSE s

RECURSIVE RStrip(_)
RStrip(s) ==
    IF s # "" /\ SubSeq(s, Len(s), Len(s)) \in Whitespace
    THEN RStrip(SubSeq(s, 1, Len(s) - 1)) ELSE s

\* s.strip()
Strip(s) == RStrip(LStrip(s))

\* a preview of the first 200 characters, unstripped
UploadPreviewOfLimit(text) ==
    IF Len(Str(text)) > 200 THEN Prefix(Str(text), 200) \o "..." ELSE Str(text)

\* text_preview of upload_resumes
UploadPreview(text) ==
    IF Len(Str(text)) > 200 THEN Strip(Prefix(Str(text), 197)) \o "..."
    ELSE Strip(Str(text))

\* text_preview of analyze_job
AnalysisPreview(text) ==
    IF Len(Str(text)) > 300 THEN Prefix(Str(text), 300) \o "..." ELSE Str(text)

\* files whose texts are about as long as the previews
PreviewFiles ==
    { UploadFile("at200.pdf", PDF, 4096, FALSE, <<Chars("a", 200)>>),
      UploadFile("at201.pdf", PDF, 4096, FALSE, <<Chars("a", 201)>>),
      UploadFile("gap.pdf", PDF, 4096, FALSE, <<Chars("a", 196), " ", Chars("a", 10)>>),
      UploadFile("padded.docx", DOCX, 4096, FALSE, <<" cv", "\n">>),
      UploadFile("at300.docx", DOCX, 4096, FALSE, <<Chars("b", 300)>>),
      UploadFile("at301.docx", DOCX, 4096, FALSE, <<Chars("b", 150), " ", Chars("b", 150)>>) }

----------------------------------------------------------------------------
(* Job requests and scoring *)

JobRequest(title, description, requirements) ==
    [title |-> title, description |-> description, requirements |-> requirements]

JobRequests ==
    { JobRequest("Backend", "go", "systems"),
      JobRequest("Designer", "design", "adobe") }

\* f"{title} {description} {requirements}"
JobText(job) == <<job.title, " ", job.description, " ", job.requirements>>

\* cosine_similarity(encode(job_text), encode(resume_text)), in hundredths:
\* the value the pretrained model gives for the texts of this model
RawCosine(job_text, resume_text) ==
    IF \E i \in DOMAIN resume_text : resume_text[i] = job_text[3] THEN 80
    ELSE IF \E i \in DOMAIN resume_text : resume_text[i] \in {"go", "design"} THEN -10
    ELSE 20

\* cosines the model can give two texts, in hundredths: below 0, in [0, 1],
\* and above 1 by a rounding error
RawCosines == {-100, -1, 0, 50, 100, 101}

\* a clamp from above alone
ClampFromAbove(x) == IF x > 100 THEN 100 ELSE x

\* max(0.0, min(1.0, float(similarity)))
Clamp(x) == IF x < 0 THEN 0 ELSE IF x > 100 THEN 100 ELSE x

\* calculate_similarity, for the two texts and for what the model does with
\* them: encode or cosine_similarity raises, or the cosine is raw
calculate_similarity(job_description, resume_text, raises, raw) ==
    IF job_description = <<>> \/ resume_text = <<>> THEN 0
    ELSE IF raises THEN 0
    ELSE Clamp(raw)

\* list.sort(key=score): stable, ascending; an element goes behind the
\* elements whose key is not larger
RECURSIVE InsertAsc(_, _)
InsertAsc(sorted, e) ==
    IF sorted = <<>> THEN <<e>>
    ELSE IF Head(sorted).similarity_score <= e.similarity_score
         THEN <<Head(sorted)>> \o InsertAsc(Tail(sorted), e)
         ELSE <<e>> \o sorted

RECURSIVE StableSortAsc(_)
StableSortAsc(s) ==
    IF s = <<>> THEN <<>>
    ELSE InsertAsc(StableSortAsc(SubSeq(s, 1, Len(s) - 1)), s[Len(s)])

\* a descending sort that reverses the ascending one: equal keys change places
SortByScoreDescUnstable(s) == Reverse(StableSortAsc(s))

\* list.sort(key=..., reverse=True): the list is reversed, sorted stably
\* ascending and reversed again, so equal keys keep their original order
SortByScoreDesc(s) == Reverse(StableSortAsc(Reverse(s)))

----------------------------------------------------------------------------
(* Identifiers.  An ObjectId is a positive number; resume ids are issued in *)
(* order, and so are job ids, of which jobIds is the last one issued.  An    *)
(* id string of a request is the number of the ObjectId it spells, or 0      *)
(* when it does not spell one.                                               *)

IdStrings == 0..MaxUploads

\* ObjectId(rid) does not raise InvalidId
ValidObjectId(rid) == rid >= 1

\* resume_ids of JobDescription: Optional[List[str]]
NoFilter == [present |-> FALSE, ids |-> <<>>]
FilterOf(ids) == [present |-> TRUE, ids |-> ids]
Filters == {NoFilter} \cup {FilterOf(ids) : ids \in SeqsUpTo(IdStrings, MaxFilterLen)}

\* the truth value Python gives `job_request.resume_ids`
Truthy(resume_ids) == resume_ids.present /\ resume_ids.ids # <<>>

\* datetime.utcnow().  Timestamps are compared only inside one collection
\* (the sorts on uploaded_at and on analyzed_at), so each collection keeps its
\* own count of the timestamps read for it.  analyze_job reads analyzed_at
\* when it builds analysis_doc, before it awaits the insert.
NowJobs == jobIds + 1
NowAnalyses == Len(analyses) + Cardinality({p \in Principals : req[p].pc = "insert"}) + 1

Idle == [pc |-> "idle"]

\* no request is between two awaits: the event loop can run a handler
LoopFree == loop = "free"

InFlight == {p \in Principals : req[p].pc # "idle"}

\* the last answer given, with the request it answers: arg and body are
\* records, the fields of which depend on the operation
Response(op, who, arg, status, body) ==
    [op |-> op, who |-> who, arg |-> arg, status |-> status, body |-> body]

Detail(text) == [detail |-> text]
NoArg == [none |-> TRUE]

----------------------------------------------------------------------------
(* upload_resumes *)

\* one pass of the loop body of upload_resumes for a file, on the loop's
\* state st = (resumes, everOwner, uploaded_resumes_info)
UploadOne(st, file, p) ==
    IF Stored(file)
    THEN LET id == Len(st.everOwner) + 1
             resume_doc == [_id |-> id,
                            filename |-> file.filename,
                            content_type |-> file.content_type,
                            text |-> ExtractText(file),
                            uploaded_by |-> p,
                            uploaded_at |-> Len(st.everOwner) + 1,
                            size |-> file.size]
         IN  [resumes |-> Append(st.resumes, resume_doc),
              everOwner |-> Append(st.everOwner, p),
              info |-> Append(st.info, [id |-> id, filename |-> file.filename,
                                        text_preview |-> UploadPreview(ExtractText(file))])]
    ELSE st

RECURSIVE UploadLoopStoppingAtFailure(_, _, _)
\* a loop that a file it does not store ends
UploadLoopStoppingAtFailure(st, files, p) ==
    IF files = <<>> \/ ~Stored(Head(files)) THEN st
    ELSE UploadLoopStoppingAtFailure(UploadOne(st, Head(files), p), Tail(files), p)

RECURSIVE UploadLoop(_, _, _)
UploadLoop(st, files, p) ==
    IF files = <<>> THEN st
    ELSE UploadLoop(UploadOne(st, Head(files), p), Tail(files), p)

upload_resumes(p, files) ==
    LET st == UploadLoop([resumes |-> resumes, everOwner |-> everOwner, info |-> <<>>],
                         files, p)
    IN  /\ LoopFree
        /\ Len(st.everOwner) <= MaxUploads
        /\ resumes' = st.resumes
        /\ everOwner' = st.everOwner
        /\ resp' = IF st.info = <<>>
                   THEN Response("upload", p, [files |-> files], 400,
                                 Detail("No valid resume files were processed"))
                   ELSE Response("upload", p, [files |-> files], 200,
                                 [message |-> Len(st.info), resumes |-> st.info])
        /\ UNCHANGED <<jobs, analyses, req, loop, encodeRaises, jobIds>>

----------------------------------------------------------------------------
(* get_all_resumes *)

RECURSIVE InsertByUploadedAtDesc(_, _)
InsertByUploadedAtDesc(sorted, d) ==
    IF sorted = <<>> THEN <<d>>
    ELSE IF Head(sorted).uploaded_at >= d.uploaded_at
         THEN <<Head(sorted)>> \o InsertByUploadedAtDesc(Tail(sorted), d)
         ELSE <<d>> \o sorted

RECURSIVE SortByUploadedAtDesc(_)
SortByUploadedAtDesc(s) ==
    IF s = <<>> THEN <<>>
    ELSE InsertByUploadedAtDesc(SortByUploadedAtDesc(SubSeq(s, 1, Len(s) - 1)), s[Len(s)])

\* db.resumes.find(query): the documents of the store among the matching
\* ones, in the store's order
Find(store, matching) == SelectSeqBy(store, matching)

\* a listing that leaves the owner condition out of the query
ListResultOfEveryone(store, p) ==
    LET cursor == SortByUploadedAtDesc(store)
    IN  [resumes |->
            [i \in 1..Len(cursor) |->
                [id |-> cursor[i]._id, filename |-> cursor[i].filename,
                 uploaded_at |-> cursor[i].uploaded_at,
                 content_type |-> cursor[i].content_type]]]

ListResult(store, p) ==
    LET OwnedBy == {d \in Range(store) : d.uploaded_by = p}
        cursor == SortByUploadedAtDesc(Find(store, OwnedBy))
    IN  [resumes |->
            [i \in 1..Len(cursor) |->
                [id |-> cursor[i]._id, filename |-> cursor[i].filename,
                 uploaded_at |-> cursor[i].uploaded_at,
                 content_type |-> cursor[i].content_type]]]

get_all_resumes(p) ==
    /\ LoopFree
    /\ resp' = Response("list", p, NoArg, 200, ListResult(resumes, p))
    /\ UNCHANGED <<resumes, jobs, analyses, everOwner, req, loop, encodeRaises, jobIds>>

----------------------------------------------------------------------------
(* get_resume_file *)

\* a fetch that looks the document up by its id alone
FileResultByIdAlone(store, p, resume_id) ==
    IF ~ValidObjectId(resume_id) THEN [status |-> 400, body |-> Detail("Invalid resume ID format")]
    ELSE LET ById == {d \in Range(store) : d._id = resume_id}
             hits == Find(store, ById)
         IN  IF hits = <<>>
             THEN [status |-> 404, body |-> Detail("Resume not found or access denied")]
             ELSE [status |-> 200,
                   body |-> [id |-> hits[1]._id, filename |-> hits[1].filename,
                             media_type |-> hits[1].content_type,
                             size |-> hits[1].size]]

FileResult(store, p, resume_id) ==
    IF ~ValidObjectId(resume_id) THEN [status |-> 400, body |-> Detail("Invalid resume ID format")]
    ELSE LET Mine == {d \in Range(store) : d._id = resume_id /\ d.uploaded_by = p}
             hits == Find(store, Mine)
         IN  IF hits = <<>>
             THEN [status |-> 404, body |-> Detail("Resume not found or access denied")]
             ELSE [status |-> 200,
                   body |-> [id |-> hits[1]._id, filename |-> hits[1].filename,
                             media_type |-> hits[1].content_type,
                             size |-> hits[1].size]]

get_resume_file(p, resume_id) ==
    /\ LoopFree
    /\ LET r == FileResult(resumes, p, resume_id)
       IN  resp' = Response("file", p, [resume_id |-> resume_id], r.status, r.body)
    /\ UNCHANGED <<resumes, jobs, analyses, everOwner, req, loop, encodeRaises, jobIds>>

----------------------------------------------------------------------------
(* delete_resume: delete_one, then count_documents when nothing was deleted *)

\* the documents delete_one({"_id": obj_id, "uploaded_by": email}) matches
DeleteMatches(store, p, obj_id) ==
    {d \in Range(store) : d._id = obj_id /\ d.uploaded_by = p}

\* a miss that is always answered as an absence
DeleteMissAlwaysNotFound(store, obj_id) == 404

\* count_documents({"_id": obj_id}) > 0, and the status chosen from it
DeleteMissStatus(store, obj_id) ==
    IF \E d \in Range(store) : d._id = obj_id THEN 403 ELSE 404

\* the status of a delete_resume whose two store operations see the same store
DeleteStatus(store, p, resume_id) ==
    IF ~ValidObjectId(resume_id) THEN 400
    ELSE IF DeleteMatches(store, p, resume_id) # {} THEN 200
    ELSE DeleteMissStatus(store, resume_id)

delete_resume(p, resume_id) ==
    /\ LoopFree
    /\ req[p].pc = "idle"
    /\ IF ~ValidObjectId(resume_id)
       THEN /\ resp' = Response("delete", p, [resume_id |-> resume_id], 400,
                                 Detail("Invalid resume ID format"))
            /\ UNCHANGED <<resumes, req>>
       ELSE IF DeleteMatches(resumes, p, resume_id) # {}
       THEN /\ resumes' = SelectSeqBy(resumes, Range(resumes) \ DeleteMatches(resumes, p, resume_id))
            /\ resp' = Response("delete", p, [resume_id |-> resume_id], 200,
                                 [message |-> "Resume deleted successfully"])
            /\ UNCHANGED req
       ELSE /\ Cardinality(InFlight) < MaxInFlight
            /\ req' = [req EXCEPT ![p] = [pc |-> "count", resume_id |-> resume_id]]
            /\ UNCHANGED <<resumes, resp>>
    /\ UNCHANGED <<jobs, analyses, everOwner, loop, encodeRaises, jobIds>>

delete_resume_count(p) ==
    /\ LoopFree
    /\ req[p].pc = "count"
    /\ LET st == DeleteMissStatus(resumes, req[p].resume_id)
       IN  resp' = Response("delete", p, [resume_id |-> req[p].resume_id], st,
                            Detail(IF st = 403 THEN "Permission denied" ELSE "Resume not found"))
    /\ req' = [req EXCEPT ![p] = Idle]
    /\ UNCHANGED <<resumes, jobs, analyses, everOwner, loop, encodeRaises, jobIds>>

----------------------------------------------------------------------------
(* analyze_job: insert_one into jobs, find in resumes, insert_one into      *)
(* analyses                                                                 *)

RECURSIVE ParseIds(_)
\* the loop that builds object_ids, skipping the strings ObjectId rejects
ParseIds(ids) ==
    IF ids = <<>> THEN <<>>
    ELSE IF ValidObjectId(Head(ids)) THEN <<Head(ids)>> \o ParseIds(Tail(ids))
         ELSE ParseIds(Tail(ids))

\* a query whose "_id" condition is left out when no id was valid
ResolvesWithoutEmptyIn(d, p, resume_ids) ==
    /\ d.uploaded_by = p
    /\ ParseIds(resume_ids.ids) # <<>> => d._id \in Range(ParseIds(resume_ids.ids))

\* resume_query_filter applied to a document
Resolves(d, p, resume_ids) ==
    /\ d.uploaded_by = p
    /\ Truthy(resume_ids) => d._id \in Range(ParseIds(resume_ids.ids))

\* a query whose "_id" condition replaces the owner condition
ResolveByIdAlone(store, p, resume_ids) ==
    LET Hit == {d \in Range(store) :
                  IF Truthy(resume_ids) THEN d._id \in Range(ParseIds(resume_ids.ids))
                  ELSE d.uploaded_by = p}
    IN  Find(store, Hit)

\* resumes_to_analyze
Resolve(store, p, resume_ids) ==
    LET Hit == {d \in Range(store) : Resolves(d, p, resume_ids)} IN Find(store, Hit)

RankingEntry(job_text, resume) ==
    [id |-> resume._id,
     filename |-> resume.filename,
     similarity_score |-> calculate_similarity(job_text, resume.text,
                                               resume._id \in encodeRaises,
                                               RawCosine(job_text, resume.text)),
     text_preview |-> AnalysisPreview(resume.text),
     uploaded_at |-> resume.uploaded_at]

\* ranked_resumes, from resumes_to_analyze
Rank(job, found) ==
    SortByScoreDesc([i \in 1..Len(found) |-> RankingEntry(JobText(job), found[i])])

analyze_job(p, job, resume_ids) ==
    /\ LoopFree
    /\ req[p].pc = "idle"
    /\ Cardinality(InFlight) < MaxInFlight
    /\ jobIds' = jobIds + 1
    /\ jobs' = Append(jobs, [_id |-> jobIds + 1,
                             title |-> job.title,
                             description |-> job.description,
                             requirements |-> job.requirements,
                             created_by |-> p,
                             created_at |-> NowJobs])
    /\ req' = [req EXCEPT ![p] = [pc |-> "find", job |-> job, resume_ids |-> resume_ids,
                                  job_id |-> jobIds + 1]]
    /\ UNCHANGED <<resumes, analyses, everOwner, resp, loop, encodeRaises>>

\* the lookup answers and the handler runs on to `await insert_one`: with
\* candidates it scores them one after the other in calculate_similarity,
\* which is called on the event loop thread and keeps it until the sort is
\* done (analyze_job_scored); what it will hold then is fixed now
analyze_job_find(p) ==
    /\ LoopFree
    /\ req[p].pc = "find"
    /\ LET found == Resolve(resumes, p, req[p].resume_ids)
       IN  /\ req' = [req EXCEPT ![p] =
                      [pc |-> "insert", job |-> req[p].job, resume_ids |-> req[p].resume_ids,
                       job_id |-> req[p].job_id,
                       analyzed_at |-> NowAnalyses,
                       resumes_to_analyze |-> [i \in 1..Len(found) |-> found[i]._id],
                       ranked_resumes |-> Rank(req[p].job, found),
                       raised |-> {d._id : d \in {x \in Range(found) : x.text # <<>>}}
                                     \cap encodeRaises]]
           /\ loop' = IF found = <<>> THEN "free" ELSE p
    /\ UNCHANGED <<resumes, jobs, analyses, everOwner, jobIds, resp, encodeRaises>>

\* the scoring loop and the sort are done: the handler awaits insert_one
analyze_job_scored(p) ==
    /\ loop = p
    /\ req[p].pc = "insert"
    /\ loop' = "free"
    /\ UNCHANGED <<resumes, jobs, analyses, everOwner, jobIds, req, resp, encodeRaises>>

\* a last step that keeps one snapshot for each principal, the latest
analyze_job_insert_latest(p) ==
    /\ LoopFree
    /\ req[p].pc = "insert"
    /\ analyses' = Append(SelectSeqBy(analyses, {a \in Range(analyses) : a.analyzed_by # p}),
                          [_id |-> Len(analyses) + 1,
                           job_id |-> req[p].job_id,
                           ranked_resumes |-> req[p].ranked_resumes,
                           analyzed_by |-> p,
                           analyzed_at |-> req[p].analyzed_at])
    /\ resp' = Response("analyze", p,
                        [job |-> req[p].job, resume_ids |-> req[p].resume_ids,
                         job_id |-> req[p].job_id,
                         resumes_to_analyze |-> req[p].resumes_to_analyze,
                         raised |-> req[p].raised],
                        200,
                        [job_id |-> req[p].job_id,
                         total_resumes |-> Len(req[p].ranked_resumes),
                         ranked_resumes |-> req[p].ranked_resumes])
    /\ req' = [req EXCEPT ![p] = Idle]
    /\ UNCHANGED <<resumes, jobs, everOwner, loop, encodeRaises, jobIds>>

analyze_job_insert(p) ==
    /\ LoopFree
    /\ req[p].pc = "insert"
    /\ analyses' = Append(analyses, [_id |-> Len(analyses) + 1,
                                     job_id |-> req[p].job_id,
                                     ranked_resumes |-> req[p].ranked_resumes,
                                     analyzed_by |-> p,
                                     analyzed_at |-> req[p].analyzed_at])
    /\ resp' = Response("analyze", p,
                        [job |-> req[p].job, resume_ids |-> req[p].resume_ids,
                         job_id |-> req[p].job_id,
                         resumes_to_analyze |-> req[p].resumes_to_analyze,
                         raised |-> req[p].raised],
                        200,
                        [job_id |-> req[p].job_id,
                         total_resumes |-> Len(req[p].ranked_resumes),
                         ranked_resumes |-> req[p].ranked_resumes])
    /\ req' = [req EXCEPT ![p] = Idle]
    /\ UNCHANGED <<resumes, jobs, everOwner, loop, encodeRaises, jobIds>>

\* what is known of a request of analyze_job that ends without a ranking
Unranked(job, resume_ids, job_id) ==
    [job |-> job, resume_ids |-> resume_ids, job_id |-> job_id,
     resumes_to_analyze |-> <<>>, raised |-> {}]

\* the answer the framework gives for an exception that leaves a handler
ServerError == Detail("Internal Server Error")

\* db.jobs.insert_one raises: the store cannot be reached
analyze_job_unavailable(p, job, resume_ids) ==
    /\ LoopFree
    /\ req[p].pc = "idle"
    /\ resp' = Response("analyze", p, Unranked(job, resume_ids, 0), 500, ServerError)
    /\ UNCHANGED <<resumes, jobs, analyses, everOwner, jobIds, req, loop, encodeRaises>>

\* the lookup in db.resumes raises
analyze_job_find_fails(p) ==
    /\ LoopFree
    /\ req[p].pc = "find"
    /\ resp' = Response("analyze", p,
                        Unranked(req[p].job, req[p].resume_ids, req[p].job_id),
                        500, ServerError)
    /\ req' = [req EXCEPT ![p] = Idle]
    /\ UNCHANGED <<resumes, jobs, analyses, everOwner, jobIds, loop, encodeRaises>>

\* db.analyses.insert_one raises
analyze_job_insert_fails(p) ==
    /\ LoopFree
    /\ req[p].pc = "insert"
    /\ resp' = Response("analyze", p,
                        Unranked(req[p].job, req[p].resume_ids, req[p].job_id),
                        500, ServerError)
    /\ req' = [req EXCEPT ![p] = Idle]
    /\ UNCHANGED <<resumes, jobs, analyses, everOwner, jobIds, loop, encodeRaises>>

\* the caller is gone and the task of the request is cancelled at the await
\* it is suspended in: nothing is answered
analyze_job_cancelled(p) ==
    /\ LoopFree
    /\ req[p].pc \in {"find", "insert"}
    /\ resp' = Response("analyze", p,
                        Unranked(req[p].job, req[p].resume_ids, req[p].job_id),
                        0, Detail("cancelled"))
    /\ req' = [req EXCEPT ![p] = Idle]
    /\ UNCHANGED <<resumes, jobs, analyses, everOwner, jobIds, loop, encodeRaises>>

\* calculate_similarity called on its own
score(job_description, resume_text, raises, raw) ==
    /\ resp' = Response("score", "none",
                        [job_description |-> job_description, resume_text |-> resume_text,
                         raises |-> raises, raw |-> raw],
                        200,
                        [similarity |-> calculate_similarity(job_description, resume_text,
                                                             raises, raw)])
    /\ UNCHANGED <<resumes, jobs, analyses, everOwner, req, loop, encodeRaises, jobIds>>

\* the model starts or stops raising for the texts of some documents
encode_raises(ids) ==
    /\ encodeRaises' = ids
    /\ UNCHANGED <<resumes, jobs, analyses, everOwner, jobIds, req, resp, loop>>

----------------------------------------------------------------------------
(* get_analysis_history *)

RECURSIVE InsertByAnalyzedAtDesc(_, _)
InsertByAnalyzedAtDesc(sorted, a) ==
    IF sorted = <<>> THEN <<a>>
    ELSE IF Head(sorted).analyzed_at >= a.analyzed_at
         THEN <<Head(sorted)>> \o InsertByAnalyzedAtDesc(Tail(sorted), a)
         ELSE <<a>> \o sorted

\* the store's order, which is oldest first
SortOldestFirst(s) == s

RECURSIVE SortByAnalyzedAtDesc(_)
SortByAnalyzedAtDesc(s) ==
    IF s = <<>> THEN <<>>
    ELSE InsertByAnalyzedAtDesc(SortByAnalyzedAtDesc(SubSeq(s, 1, Len(s) - 1)), s[Len(s)])

\* $lookup in jobs, $unwind keeping the unmatched, $ifNull on the title
JobTitle(jobStore, job_id) ==
    IF \E j \in Range(jobStore) : j._id = job_id
    THEN (CHOOSE j \in Range(jobStore) : j._id = job_id).title
    ELSE "Job Title Not Found"

\* a history that shows the entries of the documents still stored
HistoryResultOfStoredDocuments(analysisStore, jobStore, p) ==
    LET Mine == {a \in Range(analysisStore) : a.analyzed_by = p}
        sorted == SortByAnalyzedAtDesc(Find(analysisStore, Mine))
        Kept(a) == SelectSeqBy(a.ranked_resumes,
                               {e \in Range(a.ranked_resumes) :
                                   \E d \in Range(resumes) : d._id = e.id})
    IN  [history |->
            [i \in 1..Len(sorted) |->
                [analysisId |-> sorted[i]._id,
                 jobTitle |-> JobTitle(jobStore, sorted[i].job_id),
                 analyzedAt |-> sorted[i].analyzed_at,
                 rankedResumes |->
                     [k \in 1..Len(Kept(sorted[i])) |->
                         [id |-> Kept(sorted[i])[k].id,
                          filename |-> Kept(sorted[i])[k].filename,
                          similarity_score |-> Kept(sorted[i])[k].similarity_score]]]]]

HistoryResult(analysisStore, jobStore, p) ==
    LET Mine == {a \in Range(analysisStore) : a.analyzed_by = p}
        sorted == SortByAnalyzedAtDesc(Find(analysisStore, Mine))
    IN  [history |->
            [i \in 1..Len(sorted) |->
                [analysisId |-> sorted[i]._id,
                 jobTitle |-> JobTitle(jobStore, sorted[i].job_id),
                 analyzedAt |-> sorted[i].analyzed_at,
                 rankedResumes |->
                     [k \in 1..Len(sorted[i].ranked_resumes) |->
                         [id |-> sorted[i].ranked_resumes[k].id,
                          filename |-> sorted[i].ranked_resumes[k].filename,
                          similarity_score |-> sorted[i].ranked_resumes[k].similarity_score]]]]]

get_analysis_history(p) ==
    /\ LoopFree
    /\ resp' = Response("history", p, NoArg, 200, HistoryResult(analyses, jobs, p))
    /\ UNCHANGED <<resumes, jobs, analyses, everOwner, req, loop, encodeRaises, jobIds>>

\* a job document leaves db.jobs: no handler removes one, another client of
\* the database does
job_deleted(job_id) ==
    /\ \E j \in Range(jobs) : j._id = job_id
    /\ jobs' = SelectSeqBy(jobs, {j \in Range(jobs) : j._id # job_id})
    /\ UNCHANGED <<resumes, analyses, everOwner, jobIds, req, resp, loop, encodeRaises>>

----------------------------------------------------------------------------
(* The system *)

Init ==
    /\ resumes = <<>>
    /\ jobs = <<>>
    /\ analyses = <<>>
    /\ everOwner = <<>>
    /\ req = [p \in Principals |-> Idle]
    /\ resp = Response("none", "none", NoArg, 0, NoArg)
    /\ jobIds = 0
    /\ loop = "free"
    /\ encodeRaises = {}

\* the requests of one run: the batches uploaded, the id strings and the
\* filters asked for; a run is cut off after MaxAnalyses analyses.  The store
\* and the model answer every call of these runs.
NextOn(batches, ids, filters) ==
    \/ \E p \in Principals, files \in batches : upload_resumes(p, files)
    \/ \E p \in Principals : get_all_resumes(p)
    \/ \E p \in Principals, rid \in ids : get_resume_file(p, rid)
    \/ \E p \in Principals, rid \in ids : delete_resume(p, rid)
    \/ \E p \in Principals : delete_resume_count(p)
    \/ /\ jobIds < MaxAnalyses
       /\ \E p \in Principals, job \in JobRequests, f \in filters : analyze_job(p, job, f)
    \/ \E p \in Principals : analyze_job_find(p)
    \/ \E p \in Principals : analyze_job_scored(p)
    \/ \E p \in Principals : analyze_job_insert(p)
    \/ \E p \in Principals : get_analysis_history(p)

Named(name) == CHOOSE f \in Files : f.filename = name

SomeBatches == {<<Named("cv.docx")>>, <<Named("pic.png")>>}
SomeFilters == {NoFilter, FilterOf(<<>>), FilterOf(<<0>>), FilterOf(<<1, 2>>)}

Next == NextOn(SomeBatches, IdStrings, SomeFilters)

Spec == Init /\ [][Next]_vars

\* uploads alone, over every batch
NextUpload == \E p \in Principals, files \in Batches : upload_resumes(p, files)

SpecUpload == Init /\ [][NextUpload]_vars

\* uploads of single well-formed files, deletes and analyses over every filter
StorableBatches == {<<Named("scan.pdf")>>, <<Named("cv.docx")>>}

NextAnalyze ==
    \/ \E p \in Principals, files \in StorableBatches : upload_resumes(p, files)
    \/ \E p \in Principals, rid \in IdStrings : delete_resume(p, rid)
    \/ \E p \in Principals : delete_resume_count(p)
    \/ /\ jobIds < MaxAnalyses
       /\ \E p \in Principals, job \in JobRequests, f \in Filters : analyze_job(p, job, f)
    \/ \E p \in Principals : analyze_job_find(p)
    \/ \E p \in Principals : analyze_job_scored(p)
    \/ \E p \in Principals : analyze_job_insert(p)

SpecAnalyze == Init /\ [][NextAnalyze]_vars

\* calculate_similarity on its own over empty and non-empty texts and every
\* cosine, and analyses of stored documents for which the model may raise
ScoredTexts == {<<>>, <<"go">>}

NextScore ==
    \/ \E jd \in {<<>>, JobText(JobRequest("Backend", "go", "systems"))},
          rt \in ScoredTexts, raises \in BOOLEAN, raw \in RawCosines :
             score(jd, rt, raises, raw)
    \/ \E p \in Principals : upload_resumes(p, <<Named("cv.docx")>>)
    \/ \E ids \in SUBSET {d._id : d \in Range(resumes)} : encode_raises(ids)
    \/ /\ jobIds < MaxAnalyses
       /\ \E p \in Principals, job \in JobRequests : analyze_job(p, job, NoFilter)
    \/ \E p \in Principals : analyze_job_find(p)
    \/ \E p \in Principals : analyze_job_scored(p)
    \/ \E p \in Principals : analyze_job_insert(p)

SpecScore == Init /\ [][NextScore]_vars

\* uploads, deletes, up to MaxHistory analyses of all the caller's documents,
\* history reads, and job documents removed from the database
HistoryBatches == {<<Named("scan.pdf"), Named("cv.docx")>>, <<Named("cv.docx")>>}

NextHistory ==
    \/ \E p \in Principals, files \in HistoryBatches : upload_resumes(p, files)
    \/ \E p \in Principals, rid \in {1, 2} : delete_resume(p, rid)
    \/ \E p \in Principals : delete_resume_count(p)
    \/ /\ jobIds < MaxHistory
       /\ \E p \in Principals, job \in JobRequests : analyze_job(p, job, NoFilter)
    \/ \E p \in Principals : analyze_job_find(p)
    \/ \E p \in Principals : analyze_job_scored(p)
    \/ \E p \in Principals : analyze_job_insert(p)
    \/ \E p \in Principals : get_analysis_history(p)
    \/ \E job_id \in 1..MaxHistory : job_deleted(job_id)

SpecHistory == Init /\ [][NextHistory]_vars

\* uploads of files with texts about as long as the previews, and analyses
NextPreview ==
    \/ \E p \in Principals, file \in PreviewFiles : upload_resumes(p, <<file>>)
    \/ /\ jobIds < MaxAnalyses
       /\ \E p \in Principals : analyze_job(p, JobRequest("Backend", "go", "systems"), NoFilter)
    \/ \E p \in Principals : analyze_job_find(p)
    \/ \E p \in Principals : analyze_job_scored(p)
    \/ \E p \in Principals : analyze_job_insert(p)

SpecPreview == Init /\ [][NextPreview]_vars

\* analyses during which the store or the model fails, or the caller leaves
NextFaults ==
    \/ \E p \in Principals : upload_resumes(p, <<Named("cv.docx")>>)
    \/ \E ids \in SUBSET {d._id : d \in Range(resumes)} : encode_raises(ids)
    \/ /\ jobIds < MaxAnalyses
       /\ \E p \in Principals, job \in JobRequests : analyze_job(p, job, NoFilter)
    \/ \E p \in Principals, job \in JobRequests : analyze_job_unavailable(p, job, NoFilter)
    \/ \E p \in Principals : analyze_job_find(p)
    \/ \E p \in Principals : analyze_job_find_fails(p)
    \/ \E p \in Principals : analyze_job_scored(p)
    \/ \E p \in Principals : analyze_job_insert(p)
    \/ \E p \in Principals : analyze_job_insert_fails(p)
    \/ \E p \in Principals : analyze_job_cancelled(p)

SpecFaults == Init /\ [][NextFaults]_vars

----------------------------------------------------------------------------
(* Properties of analyze_job *)

Pos(seq, x) == CHOOSE i \in DOMAIN seq : seq[i] = x

Ids(entries) == {entries[i].id : i \in DOMAIN entries}

\* ranked holds the resolved documents once each, scores never rise along it,
\* and entries of equal score stand in the order of resolution
StableDescendingOf(ranked, resolved) ==
    /\ Len(ranked) = Len(resolved)
    /\ Ids(ranked) = Range(resolved)
    /\ \A i, j \in DOMAIN ranked :
          i < j =>
             /\ ranked[i].similarity_score >= ranked[j].similarity_score
             /\ ranked[i].similarity_score = ranked[j].similarity_score
                   => Pos(resolved, ranked[i].id) < Pos(resolved, ranked[j].id)

AnalyzeAnswered == resp.op = "analyze"

\* C1: the ranking analyze_job returns is the resolved candidates, in the
\* order the store returned them, rearranged by a stable sort on score
\* descending: scores are non-increasing, and entries of equal score keep the
\* order of resolution.  It holds of the ranking computed after the lookup and
\* of the ranking returned.
C1_RankingStableDescending ==
    /\ \A p \in Principals :
          req[p].pc = "insert" =>
             StableDescendingOf(req[p].ranked_resumes, req[p].resumes_to_analyze)
    /\ AnalyzeAnswered =>
          StableDescendingOf(resp.body.ranked_resumes, resp.arg.resumes_to_analyze)

\* a returned ranking of three with a tie and with an entry moved ahead of an
\* earlier resolved one
C1_Witness ==
    /\ AnalyzeAnswered
    /\ Len(resp.body.ranked_resumes) = 3
    /\ LET r == resp.body.ranked_resumes
           o == resp.arg.resumes_to_analyze
       IN  /\ \E i, j \in DOMAIN r : i < j /\ r[i].similarity_score = r[j].similarity_score
           /\ \E i, j \in DOMAIN r : i < j /\ Pos(o, r[i].id) > Pos(o, r[j].id)

\* C5: analyze_job with resume_ids present but empty returns an empty
\* ranking and records one empty snapshot, whatever the owner has stored.
C5_EmptyFilterEmptyRanking ==
    (AnalyzeAnswered /\ resp.arg.resume_ids = FilterOf(<<>>)) =>
        /\ resp.body.ranked_resumes = <<>>
        /\ \E a \in Range(analyses) :
              a.job_id = resp.body.job_id /\ a.ranked_resumes = <<>>

\* the snapshots recorded for a job
SnapshotsOf(job_id) == {a \in Range(analyses) : a.job_id = job_id}

\* every id of the filter is malformed, was never issued, or was issued to
\* another principal
AllIdsBad(p, resume_ids) ==
    /\ resume_ids.present
    /\ resume_ids.ids # <<>>
    /\ \A i \in DOMAIN resume_ids.ids :
          LET rid == resume_ids.ids[i]
          IN  rid < 1 \/ rid > Len(everOwner) \/ everOwner[rid] # p

\* C6: zero resolved candidates is no error: the request is answered 200
\* with an empty ranking and total 0, and exactly one snapshot, with no
\* entries, is recorded for the owner; a filter made of malformed, unknown or
\* foreign ids resolves zero candidates.
C6_ZeroCandidatesSucceed ==
    /\ \A p \in Principals :
          (req[p].pc = "insert" /\ AllIdsBad(p, req[p].resume_ids)) =>
              req[p].resumes_to_analyze = <<>>
    /\ (AnalyzeAnswered /\ AllIdsBad(resp.who, resp.arg.resume_ids)) =>
          resp.arg.resumes_to_analyze = <<>>
    /\ (AnalyzeAnswered /\ resp.arg.resumes_to_analyze = <<>>) =>
          /\ resp.status = 200
          /\ resp.body.ranked_resumes = <<>>
          /\ resp.body.total_resumes = 0
          /\ Cardinality(SnapshotsOf(resp.body.job_id)) = 1
          /\ \A a \in SnapshotsOf(resp.body.job_id) :
                a.ranked_resumes = <<>> /\ a.analyzed_by = resp.who

\* an answered request whose filter held only bad ids while the owner had
\* documents stored
C6_Witness ==
    /\ AnalyzeAnswered
    /\ AllIdsBad(resp.who, resp.arg.resume_ids)
    /\ resp.body.total_resumes = 0
    /\ \E d \in Range(resumes) : d.uploaded_by = resp.who
    /\ \E i \in DOMAIN resp.arg.resume_ids.ids :
          LET rid == resp.arg.resume_ids.ids[i]
          IN  rid >= 1 /\ rid <= Len(everOwner) /\ everOwner[rid] # resp.who

\* the documents the caller owns at the lookup and, when a filter is given,
\* names in it
ExpectedCandidates(p, resume_ids) ==
    {d._id : d \in {x \in Range(resumes) :
                      /\ x.uploaded_by = p
                      /\ resume_ids.present =>
                            \E i \in DOMAIN resume_ids.ids : resume_ids.ids[i] = x._id}}

FindStep(p) == req[p].pc = "find" /\ req'[p].pc = "insert"
InsertStep(p) == req[p].pc = "insert" /\ req'[p].pc = "idle"

\* C7: with no filter the ranking has exactly one entry for each document
\* the caller owns at the lookup; with a filter of at least one id it has
\* exactly one entry for each document the caller owns whose id is in the
\* filter, none for malformed ids or for documents of other principals; the
\* ranking returned is the one computed at the lookup.
C7_CandidateResolution ==
    [][\A p \in Principals :
          /\ (FindStep(p) /\ req[p].resume_ids # FilterOf(<<>>)) =>
                /\ Ids(req'[p].ranked_resumes) = ExpectedCandidates(p, req[p].resume_ids)
                /\ Len(req'[p].ranked_resumes) = Cardinality(Ids(req'[p].ranked_resumes))
          /\ InsertStep(p) => resp'.body.ranked_resumes = req[p].ranked_resumes]_vars

\* a ranking of one entry returned for a filter that names the caller's
\* document twice and a document of another principal
C7_Witness ==
    /\ AnalyzeAnswered
    /\ Len(resp.arg.resume_ids.ids) = 2
    /\ resp.body.total_resumes = 1
    /\ \E d \in Range(resumes) :
          /\ d.uploaded_by # resp.who
          /\ \E i \in DOMAIN resp.arg.resume_ids.ids : resp.arg.resume_ids.ids[i] = d._id

\* a ranking of one entry returned for a filter that repeats one id
C7_WitnessRepeated ==
    /\ AnalyzeAnswered
    /\ resp.body.total_resumes = 1
    /\ \E rid \in 1..MaxUploads : resp.arg.resume_ids = FilterOf(<<rid, rid>>)

----------------------------------------------------------------------------
(* Properties of upload_resumes *)

UploadAnswered == resp.op = "upload"

Supported(file) == file.content_type \in {PDF, DOCX}

\* the entries of the answer's list of stored resumes
StoredEntries == IF resp.status = 200 THEN resp.body.resumes ELSE <<>>

\* the files of the batch the answer lists as stored
ListedAsStored(file) == \E i \in DOMAIN StoredEntries : StoredEntries[i].filename = file.filename

\* a file that StoreCandidate is to accept: supported media type, non-empty
\* bytes of at most 10 MiB, and an extraction that did not fail
Acceptable(file) ==
    /\ Supported(file)
    /\ file.size > 0
    /\ file.size <= 10 * 1024 * 1024
    /\ ~file.corrupt

\* Acceptable, and the recovered text does not hold the words "Error extracting"
AcceptableAndUnmarked(file) ==
    /\ Acceptable(file)
    /\ \A i \in DOMAIN file.body : file.body[i] # "Error extracting"

\* C8 as stated: a file of unsupported media type creates no document, is
\* reported in a skipped count, and the upload raises no error, also when
\* every file of the batch is unsupported.
C8_UnsupportedSkippedWithoutError ==
    (UploadAnswered /\ \E i \in DOMAIN resp.arg.files : ~Supported(resp.arg.files[i])) =>
        /\ resp.status = 200
        /\ "skipped" \in DOMAIN resp.body
        /\ \A d \in Range(resumes) : d.content_type \in {PDF, DOCX}

\* C8 as amended: a file of unsupported media type creates no document and
\* is left out of the answer's list of stored resumes and of its count; the
\* answer has no skipped count; the upload succeeds when some file of the
\* batch is stored and fails with 400 when none is, as for a batch of
\* unsupported files only.
C8_UnsupportedNeverStored ==
    /\ \A d \in Range(resumes) : d.content_type \in {PDF, DOCX}
    /\ UploadAnswered =>
          /\ \A i \in DOMAIN resp.arg.files : ~Supported(resp.arg.files[i]) => ~ListedAsStored(resp.arg.files[i])
          /\ resp.status \in {200, 400}
          /\ resp.status = 200 =>
                /\ DOMAIN resp.body = {"message", "resumes"}
                /\ resp.body.message = Len(resp.body.resumes)
                /\ resp.body.message <=
                      Cardinality({i \in DOMAIN resp.arg.files : Supported(resp.arg.files[i])})
                /\ \E i \in DOMAIN resp.arg.files : Supported(resp.arg.files[i])
          /\ (\A i \in DOMAIN resp.arg.files : ~Supported(resp.arg.files[i])) => resp.status = 400

\* a batch of an unsupported file and a stored one, answered 200 with one entry
C8_Witness ==
    /\ UploadAnswered
    /\ resp.status = 200
    /\ Len(resp.body.resumes) = 1
    /\ Len(resp.arg.files) = 2
    /\ \E i \in DOMAIN resp.arg.files : ~Supported(resp.arg.files[i])

\* C9: a file whose extraction fails is never stored and does not stop the
\* files after it; the batch succeeds exactly when a file of it was stored and
\* fails exactly when none was.
C9_ExtractionFailureSkipped ==
    [][resp'.op = "upload" =>
          /\ \A i \in DOMAIN resp'.arg.files :
                resp'.arg.files[i].corrupt =>
                   /\ \A d \in Range(resumes') : d.filename # resp'.arg.files[i].filename
                   /\ \A j \in DOMAIN resp'.arg.files :
                         j > i =>
                            (AcceptableAndUnmarked(resp'.arg.files[j])
                                <=> \E d \in Range(resumes') \ Range(resumes) :
                                       /\ d.filename = resp'.arg.files[j].filename
                                       /\ d.uploaded_by = resp'.who)
          /\ resp'.status = 200 <=> Len(resumes') > Len(resumes)
          /\ resp'.status = 400 <=> resumes' = resumes]_vars

\* a damaged file followed by a file that is stored, answered 200
C9_Witness ==
    /\ UploadAnswered
    /\ resp.status = 200
    /\ Len(resp.arg.files) = 2
    /\ resp.arg.files[1].corrupt
    /\ \E d \in Range(resumes) : d.filename = resp.arg.files[2].filename /\ d._id = resp.body.resumes[1].id

\* C10: every uploaded file creates exactly one document when its media type
\* is supported, its bytes are non-empty and at most 10 MiB and its
\* extraction did not fail, whatever the extracted text says, and no document
\* otherwise.
C10_StoreCandidateAcceptance ==
    UploadAnswered =>
        /\ Len(StoredEntries) = Cardinality({i \in DOMAIN resp.arg.files : Acceptable(resp.arg.files[i])})
        /\ \A i \in DOMAIN resp.arg.files : Acceptable(resp.arg.files[i]) <=> ListedAsStored(resp.arg.files[i])

----------------------------------------------------------------------------
(* Ownership *)

OwnerOf(resume_id) == everOwner[resume_id]

\* what the last answer shows belongs to the principal it was given to
ReadsIsolated ==
    /\ resp.op = "list" =>
          \A i \in DOMAIN resp.body.resumes : OwnerOf(resp.body.resumes[i].id) = resp.who
    /\ (resp.op = "file" /\ resp.status = 200) => OwnerOf(resp.body.id) = resp.who
    /\ resp.op = "analyze" =>
          \A i \in DOMAIN resp.body.ranked_resumes :
             OwnerOf(resp.body.ranked_resumes[i].id) = resp.who
    /\ resp.op = "history" =>
          \A i \in DOMAIN resp.body.history :
             LET h == resp.body.history[i]
             IN  /\ \E a \in Range(analyses) :
                       a._id = h.analysisId /\ a.analyzed_by = resp.who
                 /\ \A k \in DOMAIN h.rankedResumes : OwnerOf(h.rankedResumes[k].id) = resp.who

\* a document leaves the store only by a delete_resume of its owner for its id
DeletesIsolated ==
    \A d \in Range(resumes) \ Range(resumes') :
       /\ resp'.op = "delete"
       /\ resp'.who = d.uploaded_by
       /\ resp'.arg.resume_id = d._id
       /\ resp'.status = 200

\* C2: what get_all_resumes lists, get_resume_file serves, analyze_job ranks
\* and get_analysis_history returns for a principal holds only records of
\* that principal, and delete_resume removes no document of another owner.
C2_OwnerIsolation == [][ReadsIsolated' /\ DeletesIsolated]_vars

\* a history with a ranked entry, read while another principal has a document
\* stored
C2_Witness ==
    /\ resp.op = "history"
    /\ \E i \in DOMAIN resp.body.history : resp.body.history[i].rankedResumes # <<>>
    /\ \E d \in Range(resumes) : d.uploaded_by # resp.who

\* the records of a store that belong to a principal
OwnResumes(p) == SelectSeqBy(resumes, {d \in Range(resumes) : d.uploaded_by = p})
OwnJobs(p) == SelectSeqBy(jobs, {j \in Range(jobs) : j.created_by = p})
OwnAnalyses(p) == SelectSeqBy(analyses, {a \in Range(analyses) : a.analyzed_by = p})

UploadAnswer(store, p, files) ==
    UploadLoop([resumes |-> store, everOwner |-> everOwner, info |-> <<>>], files, p).info

\* upload, list, file fetch, analyze and history answer a principal the same
\* on the stores and on the stores without the records of the others
SameAnswers(p) ==
    LET own == OwnResumes(p)
    IN  /\ \A files \in SomeBatches :
              UploadAnswer(resumes, p, files) = UploadAnswer(own, p, files)
        /\ ListResult(resumes, p) = ListResult(own, p)
        /\ \A rid \in IdStrings : FileResult(resumes, p, rid) = FileResult(own, p, rid)
        /\ \A f \in Filters : Resolve(resumes, p, f) = Resolve(own, p, f)
        /\ \A job \in JobRequests, f \in SomeFilters :
              Rank(job, Resolve(resumes, p, f)) = Rank(job, Resolve(own, p, f))
        /\ HistoryResult(analyses, jobs, p) = HistoryResult(OwnAnalyses(p), OwnJobs(p), p)

\* delete_resume answers a principal the same on both
SameDeleteAnswers(p) ==
    LET own == OwnResumes(p)
    IN  \A rid \in IdStrings : DeleteStatus(resumes, p, rid) = DeleteStatus(own, p, rid)

\* C3 as stated: every operation of a principal, delete_resume among them,
\* answers the same on two stores that differ only in records of others.
C3_NothingLearnedAboutOthers ==
    \A p \in Principals : SameAnswers(p) /\ SameDeleteAnswers(p)

\* C3 as amended: upload, list, file fetch, analyze and history answer the
\* same; delete_resume answers the same but for the id of a document of
\* another owner, where it answers 403 and would answer 404 without it.
C3_OnlyDeleteTellsOthersApart ==
    \A p \in Principals :
       /\ SameAnswers(p)
       /\ LET own == OwnResumes(p)
          IN  \A rid \in IdStrings :
                 \/ DeleteStatus(resumes, p, rid) = DeleteStatus(own, p, rid)
                 \/ /\ DeleteStatus(resumes, p, rid) = 403
                    /\ DeleteStatus(own, p, rid) = 404
                    /\ \E d \in Range(resumes) : d._id = rid /\ d.uploaded_by # p

\* a principal has fetched the file of an id that another principal's stored
\* document bears, and was answered 404
C3_Witness ==
    /\ resp.op = "file"
    /\ resp.status = 404
    /\ \E d \in Range(resumes) : d._id = resp.arg.resume_id /\ d.uploaded_by # resp.who
    /\ \E d \in Range(resumes) : d.uploaded_by = resp.who

----------------------------------------------------------------------------
(* Properties of delete_resume *)

CountStep(p) == req[p].pc = "count" /\ req'[p].pc = "idle"
MissStep(p) == req[p].pc = "idle" /\ req'[p].pc = "count"

\* C4: a delete_resume of a well-formed id by a principal who does not own
\* the document leaves the collection as it is and answers 403 when a
\* document with the id exists and 404 when none does, whatever other
\* principals upload or delete in between; only the owner's delete removes a
\* document.
C4_DeleteByNonOwner ==
    [][/\ \A p \in Principals :
             /\ MissStep(p) =>
                   /\ resumes' = resumes
                   /\ ValidObjectId(req'[p].resume_id)
                   /\ \A d \in Range(resumes) :
                         d._id = req'[p].resume_id => d.uploaded_by # p
             /\ CountStep(p) =>
                   /\ resumes' = resumes
                   /\ resp'.op = "delete"
                   /\ resp'.who = p
                   /\ resp'.arg.resume_id = req[p].resume_id
                   /\ resp'.status =
                         IF \E d \in Range(resumes) : d._id = req[p].resume_id
                         THEN 403 ELSE 404
       /\ \A d \in Range(resumes) \ Range(resumes') :
             resp'.op = "delete" /\ resp'.status = 200 /\ resp'.who = d.uploaded_by
       /\ (resp'.op = "delete" /\ resp'.status \in {403, 404}) =>
             (resumes' = resumes /\ ValidObjectId(resp'.arg.resume_id))]_vars

\* a principal was answered 403 for the document of another, which is still
\* stored
C4_Witness ==
    /\ resp.op = "delete"
    /\ resp.status = 403
    /\ \E d \in Range(resumes) : d._id = resp.arg.resume_id /\ d.uploaded_by # resp.who

\* a principal was answered 404 for an id that was issued to another principal,
\* whose document is gone
C4_WitnessGone ==
    /\ resp.op = "delete"
    /\ resp.status = 404
    /\ resp.arg.resume_id <= Len(everOwner)
    /\ OwnerOf(resp.arg.resume_id) # resp.who

----------------------------------------------------------------------------
(* Properties of calculate_similarity *)

InUnitInterval(x) == x \in 0..100

NonEmptyTexts(a) == a.job_description # <<>> /\ a.resume_text # <<>>

\* C11: every score calculate_similarity returns lies in [0, 1]: a cosine
\* below 0 gives 0, a cosine in [0, 1] is returned as it is, and an empty text
\* gives a score and no error; so does every score of every entry of every
\* snapshot, and of every ranking computed or returned.
C11_ScoreInUnitInterval ==
    /\ resp.op = "score" =>
          /\ resp.status = 200
          /\ InUnitInterval(resp.body.similarity)
          /\ (NonEmptyTexts(resp.arg) /\ ~resp.arg.raises /\ resp.arg.raw < 0) =>
                resp.body.similarity = 0
          /\ (NonEmptyTexts(resp.arg) /\ ~resp.arg.raises /\ resp.arg.raw \in 0..100) =>
                resp.body.similarity = resp.arg.raw
    /\ \A a \in Range(analyses) :
          \A i \in DOMAIN a.ranked_resumes : InUnitInterval(a.ranked_resumes[i].similarity_score)
    /\ \A p \in Principals :
          req[p].pc = "insert" =>
             \A i \in DOMAIN req[p].ranked_resumes :
                InUnitInterval(req[p].ranked_resumes[i].similarity_score)
    /\ resp.op = "analyze" =>
          \A i \in DOMAIN resp.body.ranked_resumes :
             InUnitInterval(resp.body.ranked_resumes[i].similarity_score)

\* a snapshot holds the score 0 for a document to which the model gives a
\* cosine below 0 with the job
C11_Witness ==
    \E a \in Range(analyses), j \in Range(jobs), d \in Range(resumes) :
       /\ j._id = a.job_id
       /\ RawCosine(JobText(j), d.text) < 0
       /\ \E i \in DOMAIN a.ranked_resumes :
             a.ranked_resumes[i].id = d._id /\ a.ranked_resumes[i].similarity_score = 0

\* calculate_similarity was given a cosine above 1 and returned 1
C11_WitnessAbove ==
    /\ resp.op = "score"
    /\ NonEmptyTexts(resp.arg) /\ ~resp.arg.raises /\ resp.arg.raw > 100
    /\ resp.body.similarity = 100

\* calculate_similarity was given an empty text and returned a score
C11_WitnessEmpty ==
    /\ resp.op = "score"
    /\ resp.arg.resume_text = <<>> /\ resp.arg.job_description # <<>>
    /\ resp.body.similarity = 0

----------------------------------------------------------------------------
(* Properties of the snapshots and of get_analysis_history *)

Last(s) == s[Len(s)]

\* the snapshots recorded before the step are there after it, as they were
SnapshotsKept ==
    /\ Len(analyses') >= Len(analyses)
    /\ \A i \in DOMAIN analyses : analyses'[i] = analyses[i]

\* C12: the step that answers an analyze_job has added exactly one snapshot,
\* of the caller and of the request's job, that holds the entries of the
\* answer in the answer's order, and it is the only snapshot of that job; no
\* other step adds a snapshot, and no step of any principal (upload, delete,
\* analysis, history read) changes or removes a snapshot recorded before.
C12_SnapshotLifecycle ==
    [][/\ SnapshotsKept
       /\ \A p \in Principals :
             InsertStep(p) =>
                /\ Len(analyses') = Len(analyses) + 1
                /\ resp'.op = "analyze" /\ resp'.who = p /\ resp'.status = 200
                /\ Last(analyses').ranked_resumes = resp'.body.ranked_resumes
                /\ Last(analyses').analyzed_by = p
                /\ Last(analyses').job_id = resp'.body.job_id
                /\ \A i \in DOMAIN analyses : analyses[i].job_id # resp'.body.job_id
       /\ (\A p \in Principals : ~InsertStep(p)) => analyses' = analyses]_vars

\* two snapshots of one principal are recorded, the first with entries, and
\* a document of the first was deleted and another uploaded since
C12_Witness ==
    /\ Len(analyses) = 2
    /\ analyses[1].analyzed_by = analyses[2].analyzed_by
    /\ resp.op = "analyze"
    /\ \E i \in DOMAIN analyses[1].ranked_resumes :
          \A d \in Range(resumes) : d._id # analyses[1].ranked_resumes[i].id
    /\ \E d \in Range(resumes) :
          \A i \in DOMAIN analyses[1].ranked_resumes : d._id # analyses[1].ranked_resumes[i].id

\* a step in which a history is answered
HistoryRead == resp'.op = "history" /\ resp' # resp

\* the snapshot with an id, after the step
SnapshotAfter(id) == CHOOSE a \in Range(analyses') : a._id = id

\* what the history shows of an entry
Shown(e) == [id |-> e.id, filename |-> e.filename, similarity_score |-> e.similarity_score]

\* C13: the entries get_analysis_history returns for a snapshot are the
\* snapshot's entries (id, filename, score), as many and in the same order,
\* whether or not the documents they name are still stored; the snapshot's
\* entries are the ranking computed for its request, and no step reorders
\* them afterwards.
C13_HistoryRoundTrip ==
    [][/\ HistoryRead =>
             \A i \in DOMAIN resp'.body.history :
                LET h == resp'.body.history[i]
                    a == SnapshotAfter(h.analysisId)
                IN  /\ Len(h.rankedResumes) = Len(a.ranked_resumes)
                    /\ \A k \in DOMAIN a.ranked_resumes :
                          h.rankedResumes[k] = Shown(a.ranked_resumes[k])
       /\ \A p \in Principals :
             InsertStep(p) => Last(analyses').ranked_resumes = req[p].ranked_resumes
       /\ \A i \in DOMAIN analyses :
             /\ i \in DOMAIN analyses'
             /\ analyses'[i]._id = analyses[i]._id
             /\ analyses'[i].ranked_resumes = analyses[i].ranked_resumes]_vars

\* a history shows a snapshot of two entries, the later uploaded document
\* first, and the document of one of them is no longer stored
C13_Witness ==
    /\ resp.op = "history"
    /\ \E i \in DOMAIN resp.body.history :
          LET r == resp.body.history[i].rankedResumes
          IN  /\ Len(r) = 2
              /\ r[1].id > r[2].id
              /\ r[1].similarity_score > r[2].similarity_score
              /\ \E k \in DOMAIN r : \A d \in Range(resumes) : d._id # r[k].id

\* the snapshots of a principal, after the step
SnapshotsAfterOf(p) == {a \in Range(analyses') : a.analyzed_by = p}

\* C14: get_analysis_history returns each snapshot of the caller once and
\* no other, the later analysed before the earlier; each with the title of
\* its job, or with "Job Title Not Found" when db.jobs holds no document of
\* the job's id, in which case the read still succeeds and shows the snapshot.
C14_HistoryNewestFirst ==
    [][HistoryRead =>
          LET h == resp'.body.history
          IN  /\ resp'.status = 200
              /\ Len(h) = Cardinality(SnapshotsAfterOf(resp'.who))
              /\ {h[i].analysisId : i \in DOMAIN h} = {a._id : a \in SnapshotsAfterOf(resp'.who)}
              /\ \A i, j \in DOMAIN h : i < j => h[i].analyzedAt >= h[j].analyzedAt
              /\ \A i \in DOMAIN h :
                    LET a == SnapshotAfter(h[i].analysisId)
                    IN  /\ h[i].analyzedAt = a.analyzed_at
                        /\ \A j \in Range(jobs') : j._id = a.job_id => h[i].jobTitle = j.title
                        /\ (\A j \in Range(jobs') : j._id # a.job_id) =>
                              h[i].jobTitle = "Job Title Not Found"]_vars

\* a history of two snapshots, the job of one of which is gone
C14_Witness ==
    /\ resp.op = "history"
    /\ Len(resp.body.history) = 2
    /\ \E i, j \in DOMAIN resp.body.history :
          /\ resp.body.history[i].jobTitle = "Job Title Not Found"
          /\ resp.body.history[j].jobTitle \in {r.title : r \in JobRequests}

----------------------------------------------------------------------------
(* Failures during analyze_job *)

\* the records a request of analyze_job has left in the collections
JobsLeftBy(job_id) == {j \in Range(jobs) : j._id = job_id}
SnapshotsLeftBy(job_id) == {a \in Range(analyses) : a.job_id = job_id}

\* C15: an analyze_job during which the model failed for a candidate is
\* answered with an error and no ranking, and no snapshot is recorded for it.
C15_ProviderFailureFailsRequest ==
    (resp.op = "analyze" /\ resp.arg.raised # {}) =>
        /\ resp.status # 200
        /\ SnapshotsLeftBy(resp.arg.job_id) = {}

\* C16: an analyze_job that failed or was abandoned after it started has
\* left no record in any collection, neither a job nor a snapshot.
C16_FailedAnalysisLeavesNothing ==
    (resp.op = "analyze" /\ resp.status # 200) =>
        /\ JobsLeftBy(resp.arg.job_id) = {}
        /\ SnapshotsLeftBy(resp.arg.job_id) = {}

----------------------------------------------------------------------------
(* The event loop *)

\* a request of another principal that is ready to run: get_all_resumes has
\* arrived for q, and nothing but the event loop keeps it from running
Runnable(q) == ENABLED get_all_resumes(q)

\* C17: while an analyze_job is scoring its candidates, a request of
\* another principal on the same event loop can take its step: in no state is
\* it kept from running until the scoring of the other request is done.
C17_OthersProgressDuringScoring ==
    \A p \in Principals :
       (req[p].pc = "insert" /\ loop = p) =>
          \A q \in Principals \ {p} : Runnable(q)

----------------------------------------------------------------------------
(* Properties of the text previews *)

\* the characters of the text stored for a document id
StoredText(id) == Str((CHOOSE d \in Range(resumes) : d._id = id).text)

\* the preview the claim describes for the limit L
PreviewOfLimit(s, L) == IF Len(s) <= L THEN s ELSE SubSeq(s, 1, L) \o "..."

Blank(s) == \A i \in 1..Len(s) : SubSeq(s, i, i) \in {" ", "\n", "\t"}

\* t is s without the whitespace at its two ends
StrippedOf(t, s) ==
    \E i \in 1..(Len(s) + 1) :
       LET j == i + Len(t) - 1
       IN  /\ Blank(SubSeq(s, 1, i - 1))
           /\ j <= Len(s)
           /\ t = SubSeq(s, i, j)
           /\ Blank(SubSeq(s, j + 1, Len(s)))
           /\ t # "" => (~Blank(SubSeq(t, 1, 1)) /\ ~Blank(SubSeq(t, Len(t), Len(t))))

\* the entries of an answered analysis are previewed with the limit 300
AnalysisPreviewed ==
    (resp.op = "analyze" /\ resp.status = 200) =>
        \A i \in DOMAIN resp.body.ranked_resumes :
           resp.body.ranked_resumes[i].text_preview =
              PreviewOfLimit(StoredText(resp.body.ranked_resumes[i].id), 300)

\* C18 as stated: the preview of a text of at most L characters is the
\* text, and that of a longer text is its first L characters and "...", with
\* L = 200 in the answer of upload_resumes and L = 300 in that of analyze_job.
C18_PreviewOfLimit ==
    /\ (resp.op = "upload" /\ resp.status = 200) =>
          \A i \in DOMAIN resp.body.resumes :
             resp.body.resumes[i].text_preview =
                PreviewOfLimit(StoredText(resp.body.resumes[i].id), 200)
    /\ AnalysisPreviewed

\* C18 as amended: in the answer of analyze_job the preview is as stated
\* with L = 300; in the answer of upload_resumes the preview of a text of at
\* most 200 characters is the text without the whitespace at its ends, and
\* that of a longer text is its first 197 characters without the whitespace at
\* their ends, and "...".
C18_PreviewStrippedTo197 ==
    /\ (resp.op = "upload" /\ resp.status = 200) =>
          \A i \in DOMAIN resp.body.resumes :
             LET s == StoredText(resp.body.resumes[i].id)
                 t == resp.body.resumes[i].text_preview
             IN  /\ Len(s) <= 200 => StrippedOf(t, s)
                 /\ Len(s) > 200 =>
                       /\ Len(t) >= 3
                       /\ SubSeq(t, Len(t) - 2, Len(t)) = "..."
                       /\ StrippedOf(SubSeq(t, 1, Len(t) - 3), SubSeq(s, 1, 197))
    /\ AnalysisPreviewed

\* an upload is answered with the preview of a text of more than 200
\* characters, the 197th of which is a space
C18_Witness ==
    /\ resp.op = "upload" /\ resp.status = 200
    /\ \E i \in DOMAIN resp.body.resumes :
          LET s == StoredText(resp.body.resumes[i].id)
          IN  /\ Len(s) > 200
              /\ SubSeq(s, 197, 197) = " "
              /\ Len(resp.body.resumes[i].text_preview) = 199

\* an analysis is answered with the previews of a text of 300 characters
\* and of a text of 301
C18_WitnessAnalysis ==
    /\ resp.op = "analyze" /\ resp.status = 200
    /\ \E i, j \in DOMAIN resp.body.ranked_resumes :
          /\ Len(StoredText(resp.body.ranked_resumes[i].id)) = 300
          /\ Len(resp.body.ranked_resumes[i].text_preview) = 300
          /\ Len(StoredText(resp.body.ranked_resumes[j].id)) = 301
          /\ Len(resp.body.ranked_resumes[j].text_preview) = 303

====
